---- MODULE Spec2Model ----
(***************************************************************************)
(* Model of the clawscrow escrow program                                   *)
(* (programs/clawscrow/src/lib.rs): the Escrow accounts, the SPL token     *)
(* accounts the instructions move funds between, the clock, and the seven  *)
(* instruction handlers together with the account validation that runs     *)
(* before each of them.                                                    *)
(*                                                                         *)
(* An instruction is one atomic step: the runtime serializes transactions  *)
(* that write the same account and discards every write of a transaction   *)
(* that returns an error.  Accounts constrained by `seeds` are identified  *)
(* with the escrow id they are derived from.  Token accounts carry no      *)
(* constraint beyond `mut`, so the caller chooses them freely among the    *)
(* initialized token accounts, vaults included.                            *)
(***************************************************************************)
EXTENDS Integers, Sequences, FiniteSets, TLC

\* ------------------------------------------------------------------ bounds

\* Largest value of the unsigned amount type (u64 in the program), scaled down.
MaxU64 == 1000
\* Escrow ids the callers use: 1..MaxId.
MaxId == 2
\* Balance every user's token account starts with.
InitBal == 310
\* The clock is sampled at p * REVIEW_PERIOD + o (p in 0..MaxPeriods, o in
\* 0..MaxOffset) and one second before each multiple of REVIEW_PERIOD.
MaxPeriods == 1
MaxOffset == 0

\* --------------------------------------------------------------- constants

REVIEW_PERIOD == 3 * 24 * 60 * 60
MaxDescriptionLen == 500
FeeDivisor == 100

\* ------------------------------------------------------------------- sets

Ids == 1..MaxId
Parties == {"alice", "bob", "carol"}
\* Pubkey::default(): nobody can sign for it.
DefaultPubkey == "default"
ZeroHash == "zero"
Hashes == {"H1"}
Mints == {"usdc", "other"}

\* Program-derived addresses: seeds [b"escrow", id] and [b"vault", id].
EscrowPda(id) == "escrow" \o ToString(id)
Vault(id) == "vault" \o ToString(id)

UserToken(p) == p \o "_usdc"
ForeignToken == "alice_other"

Times ==
    {p * REVIEW_PERIOD + o : p \in 0..MaxPeriods, o \in 0..MaxOffset}
        \cup {p * REVIEW_PERIOD - 1 : p \in 1..MaxPeriods}

\* Inputs the callers choose from.
Buyers == {"alice"}
Arbitrators == {"carol"}
PaymentAmounts == {0, 1, MaxU64}
BuyerCollaterals == {150}
SellerCollaterals == {2, MaxU64}
DescriptionLens == {MaxDescriptionLen, MaxDescriptionLen + 1}
CreateMints == {"usdc"}
Rulings == {"BuyerWins", "SellerWins"}
Sellers == {"bob", "carol"}
\* Token accounts passed as the main payout destination, as the destination of the
\* buyer's refund leg, and as the destination of the arbitrator's fee leg.
PayoutTokens(t) == DOMAIN t
RefundTokens == {UserToken(b) : b \in Buyers} \cup {ForeignToken}
FeeTokens == {UserToken(a) : a \in Arbitrators} \cup {ForeignToken}

VARIABLES
    escrow,   \* initialized Escrow accounts: escrow id -> Escrow
    token,    \* initialized token accounts: address -> [owner, mint, amount]
    now,      \* Clock::get()?.unix_timestamp
    ledger    \* per id: what the successful instructions on that id did

vars == <<escrow, token, now, ledger>>

\* ------------------------------------------------------- value transfer

\* u64::checked_add / checked_sub: -1 stands for None.
checked_add(a, b) == IF a = -1 \/ a + b > MaxU64 THEN -1 ELSE a + b
checked_sub(a, b) == IF a = -1 \/ a - b < 0 THEN -1 ELSE a - b

\* token::transfer (SPL Token `Transfer`): fails without effect on insufficient
\* funds, a mint mismatch or an authority that does not own the source; a
\* self-transfer or a zero amount succeeds and changes nothing.
TokenTransfer(t, from, to, authority, amount) ==
    IF t[from].amount < amount THEN [ok |-> FALSE, token |-> t]
    ELSE IF t[from].mint # t[to].mint THEN [ok |-> FALSE, token |-> t]
    ELSE IF t[from].owner # authority THEN [ok |-> FALSE, token |-> t]
    ELSE IF from = to \/ amount = 0 THEN [ok |-> TRUE, token |-> t]
    ELSE IF t[to].amount + amount > MaxU64 THEN [ok |-> FALSE, token |-> t]
    ELSE [ok |-> TRUE,
          token |-> [t EXCEPT ![from].amount = @ - amount, ![to].amount = @ + amount]]

Xfer(from, to, amount) == [from |-> from, to |-> to, amount |-> amount]

\* What a handler returns: the error kind ("Ok" on success) and the accounts as
\* the handler left them when it returned.
Result(err, e, t, x) == [err |-> err, escrow |-> e, token |-> t, xfers |-> x]

\* ---------------------------------------------------------------- handlers

\* create_escrow without the `payment_amount > 0` requirement.
create_escrow_NoAmountCheck(buyer, buyer_token, arbitrator, usdc_mint, escrow_id, description, payment_amount, buyer_collateral, seller_collateral, deadline_ts) ==
    IF escrow_id \in DOMAIN escrow \/ Vault(escrow_id) \in DOMAIN token
    THEN Result("AccountInUse", escrow, token, <<>>)
    ELSE
    LET t0 == token @@ (Vault(escrow_id) :>
                  [owner |-> EscrowPda(escrow_id), mint |-> usdc_mint, amount |-> 0])
        rec == [escrow_id |-> escrow_id,
                buyer |-> buyer,
                seller |-> DefaultPubkey,
                arbitrator |-> arbitrator,
                payment_amount |-> payment_amount,
                buyer_collateral |-> buyer_collateral,
                seller_collateral |-> seller_collateral,
                deadline_ts |-> deadline_ts,
                description |-> description,
                state |-> "Created",
                delivery_hash |-> ZeroHash,
                created_at |-> now,
                delivered_at |-> 0]
        e1 == escrow @@ (escrow_id :> rec)
        total == checked_add(payment_amount, buyer_collateral)
        tr == TokenTransfer(t0, buyer_token, Vault(escrow_id), buyer, total)
    IN  IF ~(description <= MaxDescriptionLen)
            THEN Result("DescriptionTooLong", escrow, t0, <<>>)
        ELSE IF ~(deadline_ts > now) THEN Result("InvalidDeadline", escrow, t0, <<>>)
        ELSE IF total = -1 THEN Result("Overflow", e1, t0, <<>>)
        ELSE IF ~tr.ok THEN Result("TokenError", e1, t0, <<>>)
        ELSE Result("Ok", e1, tr.token, <<Xfer(buyer_token, Vault(escrow_id), total)>>)

create_escrow(buyer, buyer_token, arbitrator, usdc_mint, escrow_id, description, payment_amount, buyer_collateral, seller_collateral, deadline_ts) ==
    IF escrow_id \in DOMAIN escrow \/ Vault(escrow_id) \in DOMAIN token
    THEN Result("AccountInUse", escrow, token, <<>>)
    ELSE
    LET t0 == token @@ (Vault(escrow_id) :>
                  [owner |-> EscrowPda(escrow_id), mint |-> usdc_mint, amount |-> 0])
        rec == [escrow_id |-> escrow_id,
                buyer |-> buyer,
                seller |-> DefaultPubkey,
                arbitrator |-> arbitrator,
                payment_amount |-> payment_amount,
                buyer_collateral |-> buyer_collateral,
                seller_collateral |-> seller_collateral,
                deadline_ts |-> deadline_ts,
                description |-> description,
                state |-> "Created",
                delivery_hash |-> ZeroHash,
                created_at |-> now,
                delivered_at |-> 0]
        e1 == escrow @@ (escrow_id :> rec)
        total == checked_add(payment_amount, buyer_collateral)
        tr == TokenTransfer(t0, buyer_token, Vault(escrow_id), buyer, total)
    IN  IF ~(payment_amount > 0) THEN Result("InvalidAmount", escrow, t0, <<>>)
        ELSE IF ~(description <= MaxDescriptionLen)
            THEN Result("DescriptionTooLong", escrow, t0, <<>>)
        ELSE IF ~(deadline_ts > now) THEN Result("InvalidDeadline", escrow, t0, <<>>)
        ELSE IF total = -1 THEN Result("Overflow", e1, t0, <<>>)
        ELSE IF ~tr.ok THEN Result("TokenError", e1, t0, <<>>)
        ELSE Result("Ok", e1, tr.token, <<Xfer(buyer_token, Vault(escrow_id), total)>>)

\* accept_escrow with the result of the collateral transfer dropped instead of
\* propagated with `?`.
accept_escrow_IgnoreTransferError(seller, seller_token, escrow_id) ==
    IF escrow_id \notin DOMAIN escrow
    THEN Result("AccountNotInitialized", escrow, token, <<>>)
    ELSE
    LET e == escrow[escrow_id]
        collateral == e.seller_collateral
        e1 == [escrow EXCEPT ![escrow_id].seller = seller, ![escrow_id].state = "Accepted"]
        tr == TokenTransfer(token, seller_token, Vault(escrow_id), seller, collateral)
    IN  IF e.state # "Created" THEN Result("InvalidState", escrow, token, <<>>)
        ELSE IF e.escrow_id # escrow_id THEN Result("InvalidState", escrow, token, <<>>)
        ELSE IF ~tr.ok THEN Result("Ok", e1, token, <<>>)
        ELSE Result("Ok", e1, tr.token,
                    <<Xfer(seller_token, Vault(escrow_id), collateral)>>)

\* accept_escrow without the assignment `escrow.seller = ctx.accounts.seller.key()`.
accept_escrow_SellerNotStored(seller, seller_token, escrow_id) ==
    IF escrow_id \notin DOMAIN escrow
    THEN Result("AccountNotInitialized", escrow, token, <<>>)
    ELSE
    LET e == escrow[escrow_id]
        collateral == e.seller_collateral
        e1 == [escrow EXCEPT ![escrow_id].state = "Accepted"]
        tr == TokenTransfer(token, seller_token, Vault(escrow_id), seller, collateral)
    IN  IF e.state # "Created" THEN Result("InvalidState", escrow, token, <<>>)
        ELSE IF e.escrow_id # escrow_id THEN Result("InvalidState", escrow, token, <<>>)
        ELSE IF ~tr.ok THEN Result("TokenError", e1, token, <<>>)
        ELSE Result("Ok", e1, tr.token,
                    <<Xfer(seller_token, Vault(escrow_id), collateral)>>)

\* accept_escrow without the `state == Created` requirement.
accept_escrow_NoStateCheck(seller, seller_token, escrow_id) ==
    IF escrow_id \notin DOMAIN escrow
    THEN Result("AccountNotInitialized", escrow, token, <<>>)
    ELSE
    LET e == escrow[escrow_id]
        collateral == e.seller_collateral
        e1 == [escrow EXCEPT ![escrow_id].seller = seller, ![escrow_id].state = "Accepted"]
        tr == TokenTransfer(token, seller_token, Vault(escrow_id), seller, collateral)
    IN  IF e.escrow_id # escrow_id THEN Result("InvalidState", escrow, token, <<>>)
        ELSE IF ~tr.ok THEN Result("TokenError", e1, token, <<>>)
        ELSE Result("Ok", e1, tr.token,
                    <<Xfer(seller_token, Vault(escrow_id), collateral)>>)

\* Account validation of the instructions whose escrow and vault accounts carry
\* `seeds = [.., escrow_id]`: the accounts are the ones derived from escrow_id,
\* and the escrow account must be initialized.
accept_escrow(seller, seller_token, escrow_id) ==
    IF escrow_id \notin DOMAIN escrow
    THEN Result("AccountNotInitialized", escrow, token, <<>>)
    ELSE
    LET e == escrow[escrow_id]
        collateral == e.seller_collateral
        eid == e.escrow_id
        e1 == [escrow EXCEPT ![escrow_id].seller = seller, ![escrow_id].state = "Accepted"]
        tr == TokenTransfer(token, seller_token, Vault(escrow_id), seller, collateral)
    IN  IF e.state # "Created" THEN Result("InvalidState", escrow, token, <<>>)
        ELSE IF e.escrow_id # escrow_id THEN Result("InvalidState", escrow, token, <<>>)
        ELSE IF ~tr.ok THEN Result("TokenError", e1, token, <<>>)
        ELSE Result("Ok", e1, tr.token, <<Xfer(seller_token, Vault(eid), collateral)>>)

\* deliver without the `seller.key() == escrow.seller` requirement.
deliver_SkipSellerCheck(seller, acct, delivery_hash) ==
    IF acct \notin DOMAIN escrow
    THEN Result("AccountNotInitialized", escrow, token, <<>>)
    ELSE
    LET e == escrow[acct]
        e1 == [escrow EXCEPT ![acct].delivery_hash = delivery_hash,
                             ![acct].state = "Delivered",
                             ![acct].delivered_at = now]
    IN  IF e.state # "Accepted" THEN Result("InvalidState", escrow, token, <<>>)
        ELSE Result("Ok", e1, token, <<>>)

\* deliver without the assignment `escrow.delivered_at = Clock::get()?.unix_timestamp`.
deliver_DeliveredAtNotSet(seller, acct, delivery_hash) ==
    IF acct \notin DOMAIN escrow
    THEN Result("AccountNotInitialized", escrow, token, <<>>)
    ELSE
    LET e == escrow[acct]
        e1 == [escrow EXCEPT ![acct].delivery_hash = delivery_hash,
                             ![acct].state = "Delivered"]
    IN  IF e.state # "Accepted" THEN Result("InvalidState", escrow, token, <<>>)
        ELSE IF seller # e.seller THEN Result("Unauthorized", escrow, token, <<>>)
        ELSE Result("Ok", e1, token, <<>>)

\* deliver with a requirement that the deadline has not passed.
deliver_ChecksDeadline(seller, acct, delivery_hash) ==
    IF acct \notin DOMAIN escrow
    THEN Result("AccountNotInitialized", escrow, token, <<>>)
    ELSE
    LET e == escrow[acct]
        e1 == [escrow EXCEPT ![acct].delivery_hash = delivery_hash,
                             ![acct].state = "Delivered",
                             ![acct].delivered_at = now]
    IN  IF e.state # "Accepted" THEN Result("InvalidState", escrow, token, <<>>)
        ELSE IF seller # e.seller THEN Result("Unauthorized", escrow, token, <<>>)
        ELSE IF ~(now <= e.deadline_ts) THEN Result("InvalidDeadline", escrow, token, <<>>)
        ELSE Result("Ok", e1, token, <<>>)

\* Deliver and DisputeCtx take the escrow account itself (no seeds, no id argument).
deliver(seller, acct, delivery_hash) ==
    IF acct \notin DOMAIN escrow
    THEN Result("AccountNotInitialized", escrow, token, <<>>)
    ELSE
    LET e == escrow[acct]
        e1 == [escrow EXCEPT ![acct].delivery_hash = delivery_hash,
                             ![acct].state = "Delivered",
                             ![acct].delivered_at = now]
    IN  IF e.state # "Accepted" THEN Result("InvalidState", escrow, token, <<>>)
        ELSE IF seller # e.seller THEN Result("Unauthorized", escrow, token, <<>>)
        ELSE Result("Ok", e1, token, <<>>)

\* The two-leg payout shared by approve and auto_approve (lib.rs repeats it).
payout(escrow_id, buyer_token, seller_token) ==
    LET e == escrow[escrow_id]
        payment == e.payment_amount
        seller_col == e.seller_collateral
        buyer_col == e.buyer_collateral
        seller_total == checked_add(payment, seller_col)
        t1 == TokenTransfer(token, Vault(escrow_id), seller_token,
                            EscrowPda(escrow_id), seller_total)
        t2 == TokenTransfer(t1.token, Vault(escrow_id), buyer_token,
                            EscrowPda(escrow_id), buyer_col)
        e1 == [escrow EXCEPT ![escrow_id].state = "Approved"]
    IN  IF seller_total = -1 THEN Result("Overflow", escrow, token, <<>>)
        ELSE IF ~t1.ok THEN Result("TokenError", escrow, token, <<>>)
        ELSE IF ~t2.ok
            THEN Result("TokenError", escrow, t1.token,
                        <<Xfer(Vault(escrow_id), seller_token, seller_total)>>)
        ELSE Result("Ok", e1, t2.token,
                    <<Xfer(Vault(escrow_id), seller_token, seller_total),
                      Xfer(Vault(escrow_id), buyer_token, buyer_col)>>)

\* approve without the `state == Delivered` requirement.
approve_NoStateCheck(signer, escrow_id, buyer_token, seller_token) ==
    IF escrow_id \notin DOMAIN escrow
    THEN Result("AccountNotInitialized", escrow, token, <<>>)
    ELSE
    LET e == escrow[escrow_id]
    IN  IF signer # e.buyer THEN Result("Unauthorized", escrow, token, <<>>)
        ELSE IF e.escrow_id # escrow_id THEN Result("InvalidState", escrow, token, <<>>)
        ELSE payout(escrow_id, buyer_token, seller_token)

approve(signer, escrow_id, buyer_token, seller_token) ==
    IF escrow_id \notin DOMAIN escrow
    THEN Result("AccountNotInitialized", escrow, token, <<>>)
    ELSE
    LET e == escrow[escrow_id]
    IN  IF e.state # "Delivered" THEN Result("InvalidState", escrow, token, <<>>)
        ELSE IF signer # e.buyer THEN Result("Unauthorized", escrow, token, <<>>)
        ELSE IF e.escrow_id # escrow_id THEN Result("InvalidState", escrow, token, <<>>)
        ELSE payout(escrow_id, buyer_token, seller_token)

\* raise_dispute with a review-window requirement on the time of the call.
raise_dispute_WithinReviewWindow(buyer, acct) ==
    IF acct \notin DOMAIN escrow
    THEN Result("AccountNotInitialized", escrow, token, <<>>)
    ELSE
    LET e == escrow[acct]
        e1 == [escrow EXCEPT ![acct].state = "Disputed"]
    IN  IF e.state # "Delivered" THEN Result("InvalidState", escrow, token, <<>>)
        ELSE IF buyer # e.buyer THEN Result("Unauthorized", escrow, token, <<>>)
        ELSE IF ~(now < e.delivered_at + REVIEW_PERIOD)
            THEN Result("ReviewPeriodExpired", escrow, token, <<>>)
        ELSE Result("Ok", e1, token, <<>>)

raise_dispute(buyer, acct) ==
    IF acct \notin DOMAIN escrow
    THEN Result("AccountNotInitialized", escrow, token, <<>>)
    ELSE
    LET e == escrow[acct]
        e1 == [escrow EXCEPT ![acct].state = "Disputed"]
    IN  IF e.state # "Delivered" THEN Result("InvalidState", escrow, token, <<>>)
        ELSE IF buyer # e.buyer THEN Result("Unauthorized", escrow, token, <<>>)
        ELSE Result("Ok", e1, token, <<>>)

\* Arbitrate's escrow account also carries `has_one = arbitrator`, checked
\* before the handler runs.
arbitrate(arbitrator, escrow_id, ruling, buyer_token, seller_token, arbitrator_token) ==
    IF escrow_id \notin DOMAIN escrow
    THEN Result("AccountNotInitialized", escrow, token, <<>>)
    ELSE IF escrow[escrow_id].arbitrator # arbitrator
    THEN Result("ConstraintHasOne", escrow, token, <<>>)
    ELSE
    LET e == escrow[escrow_id]
        payment == e.payment_amount
        buyer_col == e.buyer_collateral
        seller_col == e.seller_collateral
        total_pool == checked_add(checked_add(payment, buyer_col), seller_col)
        arb_fee == buyer_col \div FeeDivisor
        winner_amount == checked_sub(total_pool, arb_fee)
        winner_token == IF ruling = "BuyerWins" THEN buyer_token ELSE seller_token
        t1 == TokenTransfer(token, Vault(escrow_id), winner_token,
                            EscrowPda(escrow_id), winner_amount)
        t2 == TokenTransfer(t1.token, Vault(escrow_id), arbitrator_token,
                            EscrowPda(escrow_id), arb_fee)
        e1 == [escrow EXCEPT ![escrow_id].state =
                  IF ruling = "BuyerWins" THEN "ResolvedBuyer" ELSE "ResolvedSeller"]
    IN  IF e.state # "Disputed" THEN Result("InvalidState", escrow, token, <<>>)
        ELSE IF arbitrator # e.arbitrator THEN Result("Unauthorized", escrow, token, <<>>)
        ELSE IF e.escrow_id # escrow_id THEN Result("InvalidState", escrow, token, <<>>)
        ELSE IF total_pool = -1 THEN Result("Overflow", escrow, token, <<>>)
        ELSE IF winner_amount = -1 THEN Result("Overflow", escrow, token, <<>>)
        ELSE IF ~t1.ok THEN Result("TokenError", escrow, token, <<>>)
        ELSE IF ~t2.ok
            THEN Result("TokenError", escrow, t1.token,
                        <<Xfer(Vault(escrow_id), winner_token, winner_amount)>>)
        ELSE Result("Ok", e1, t2.token,
                    <<Xfer(Vault(escrow_id), winner_token, winner_amount),
                      Xfer(Vault(escrow_id), arbitrator_token, arb_fee)>>)

\* auto_approve with `now > delivered_at + review_period` for `>=`.
auto_approve_StrictlyAfter(signer, escrow_id, buyer_token, seller_token) ==
    IF escrow_id \notin DOMAIN escrow
    THEN Result("AccountNotInitialized", escrow, token, <<>>)
    ELSE
    LET e == escrow[escrow_id]
        review_period == REVIEW_PERIOD
    IN  IF e.state # "Delivered" THEN Result("InvalidState", escrow, token, <<>>)
        ELSE IF e.escrow_id # escrow_id THEN Result("InvalidState", escrow, token, <<>>)
        ELSE IF ~(now > e.delivered_at + review_period)
            THEN Result("ReviewPeriodActive", escrow, token, <<>>)
        ELSE payout(escrow_id, buyer_token, seller_token)

auto_approve(signer, escrow_id, buyer_token, seller_token) ==
    IF escrow_id \notin DOMAIN escrow
    THEN Result("AccountNotInitialized", escrow, token, <<>>)
    ELSE
    LET e == escrow[escrow_id]
        review_period == REVIEW_PERIOD
    IN  IF e.state # "Delivered" THEN Result("InvalidState", escrow, token, <<>>)
        ELSE IF e.escrow_id # escrow_id THEN Result("InvalidState", escrow, token, <<>>)
        ELSE IF ~(now >= e.delivered_at + review_period)
            THEN Result("ReviewPeriodActive", escrow, token, <<>>)
        ELSE payout(escrow_id, buyer_token, seller_token)

\* ------------------------------------------------------------ transactions

\* What a sequence of transfers moved into and out of a token account, transfers
\* of an account to itself aside.
Credited(xs, acct) ==
    LET RECURSIVE S(_)
        S(i) == IF i = 0 THEN 0
                ELSE (IF xs[i].to = acct /\ xs[i].from # acct THEN xs[i].amount ELSE 0)
                     + S(i - 1)
    IN  S(Len(xs))
Debited(xs, acct) ==
    LET RECURSIVE S(_)
        S(i) == IF i = 0 THEN 0
                ELSE (IF xs[i].from = acct /\ xs[i].to # acct THEN xs[i].amount ELSE 0)
                     + S(i - 1)
    IN  S(Len(xs))

\* A transaction either returns Ok and its account writes stay, or returns an
\* error and the runtime discards every write of the instruction.
Apply(r) ==
    IF r.err = "Ok"
    THEN [escrow |-> r.escrow, token |-> r.token, xfers |-> r.xfers]
    ELSE [escrow |-> escrow, token |-> token, xfers |-> <<>>]

Unchanged(r) == Apply(r).escrow = escrow /\ Apply(r).token = token

\* A failed transaction leaves no trace in the accounts.  The ledger keeps, per
\* escrow id, what the successful instructions on that id did: the instructions in
\* order, who signed accept_escrow, the funds create/accept deposited, the funds
\* that left the vault and the transfers of the settlement.
Commit(op, id, signer, r) ==
    /\ escrow' = Apply(r).escrow
    /\ token' = Apply(r).token
    /\ ledger' =
        [i \in Ids |->
            [ops |-> IF i = id /\ r.err = "Ok"
                     THEN Append(ledger[i].ops, op) ELSE ledger[i].ops,
             acceptor |-> IF i = id /\ r.err = "Ok" /\ op = "accept_escrow"
                          THEN signer ELSE ledger[i].acceptor,
             deposited |-> ledger[i].deposited +
                (IF i = id /\ op \in {"create_escrow", "accept_escrow"}
                 THEN Credited(Apply(r).xfers, Vault(i))
                 ELSE 0),
             paid |-> ledger[i].paid +
                Debited(Apply(r).xfers, Vault(i)),
             payouts |-> IF i = id /\ op \in {"approve", "auto_approve", "arbitrate"}
                         THEN ledger[i].payouts \o Apply(r).xfers
                         ELSE ledger[i].payouts]]
    /\ UNCHANGED now

\* ----------------------------------------------------------------- actions

\* The token accounts a caller passes matter only once the checks that precede the
\* transfers have passed; when they fail, one representative choice is enumerated.
AnyToken == UserToken("alice")
BeforeTransfer ==
    {"AccountInUse", "AccountNotInitialized", "ConstraintHasOne", "InvalidAmount",
     "DescriptionTooLong", "InvalidDeadline", "InvalidState", "Unauthorized",
     "Overflow", "ReviewPeriodActive"}
Choices(err, S) == IF err \in BeforeTransfer THEN {AnyToken} ELSE S

\* The arguments of create_escrow; when the id is taken the instruction fails in
\* account validation whatever they are, and one choice is enumerated.
CreateArgs(id) ==
    LET all == [description : DescriptionLens, payment_amount : PaymentAmounts,
                buyer_collateral : BuyerCollaterals,
                seller_collateral : SellerCollaterals,
                deadline_ts : {now, now + 1}]
    IN  IF id \in DOMAIN escrow THEN {CHOOSE a \in all : TRUE} ELSE all

CreateEscrow ==
    \E buyer \in Buyers, arbitrator \in Arbitrators, id \in Ids,
       usdc_mint \in CreateMints :
        \E a \in CreateArgs(id) :
            \E buyer_token \in
                    Choices(create_escrow(buyer, AnyToken, arbitrator, usdc_mint, id,
                                          a.description, a.payment_amount,
                                          a.buyer_collateral, a.seller_collateral,
                                          a.deadline_ts).err,
                            PayoutTokens(token) \cup {Vault(id)}) :
                Commit("create_escrow", id, buyer,
                       create_escrow(buyer, buyer_token, arbitrator, usdc_mint, id,
                                     a.description, a.payment_amount, a.buyer_collateral,
                                     a.seller_collateral, a.deadline_ts))

AcceptEscrow ==
    \E seller \in Sellers, escrow_id \in Ids :
        \E seller_token \in
                Choices(accept_escrow(seller, AnyToken, escrow_id).err,
                        PayoutTokens(token)) :
            Commit("accept_escrow", escrow_id, seller,
                   accept_escrow(seller, seller_token, escrow_id))

Deliver ==
    \E seller \in Parties, acct \in Ids, delivery_hash \in Hashes :
        Commit("deliver", acct, seller, deliver(seller, acct, delivery_hash))

Approve ==
    \E signer \in Parties, escrow_id \in Ids :
        \E seller_token \in
                Choices(approve(signer, escrow_id, AnyToken, AnyToken).err,
                        PayoutTokens(token)),
           buyer_token \in
                Choices(approve(signer, escrow_id, AnyToken, AnyToken).err,
                        RefundTokens) :
            Commit("approve", escrow_id, signer,
                   approve(signer, escrow_id, buyer_token, seller_token))

RaiseDispute ==
    \E buyer \in Parties, acct \in Ids :
        Commit("raise_dispute", acct, buyer, raise_dispute(buyer, acct))

Arbitrate ==
    \E arbitrator \in Parties, escrow_id \in Ids, ruling \in Rulings :
        \E winner_token \in
                Choices(arbitrate(arbitrator, escrow_id, ruling,
                                  AnyToken, AnyToken, AnyToken).err,
                        PayoutTokens(token)),
           arbitrator_token \in
                Choices(arbitrate(arbitrator, escrow_id, ruling,
                                  AnyToken, AnyToken, AnyToken).err,
                        FeeTokens) :
            \* the token account of the side that lost is not used by the handler
            Commit("arbitrate", escrow_id, arbitrator,
                   IF ruling = "BuyerWins"
                   THEN arbitrate(arbitrator, escrow_id, ruling,
                                  winner_token, AnyToken, arbitrator_token)
                   ELSE arbitrate(arbitrator, escrow_id, ruling,
                                  AnyToken, winner_token, arbitrator_token))

AutoApprove ==
    \E signer \in Parties, escrow_id \in Ids :
        \E seller_token \in
                Choices(auto_approve(signer, escrow_id, AnyToken, AnyToken).err,
                        PayoutTokens(token)),
           buyer_token \in
                Choices(auto_approve(signer, escrow_id, AnyToken, AnyToken).err,
                        RefundTokens) :
            Commit("auto_approve", escrow_id, signer,
                   auto_approve(signer, escrow_id, buyer_token, seller_token))

Tick ==
    /\ \E t \in Times : t > now /\ now' = t
    /\ UNCHANGED <<escrow, token, ledger>>

Init ==
    /\ escrow = <<>>
    /\ token = [a \in {UserToken(p) : p \in Parties} \cup {ForeignToken} |->
                  IF a = ForeignToken
                  THEN [owner |-> "alice", mint |-> "other", amount |-> 0]
                  ELSE [owner |-> CHOOSE p \in Parties : UserToken(p) = a,
                        mint |-> "usdc", amount |-> InitBal]]
    /\ now = 0
    /\ ledger = [i \in Ids |->
                    [ops |-> <<>>, acceptor |-> DefaultPubkey, deposited |-> 0,
                     paid |-> 0, payouts |-> <<>>]]

Next ==
    \/ CreateEscrow
    \/ AcceptEscrow
    \/ Deliver
    \/ Approve
    \/ RaiseDispute
    \/ Arbitrate
    \/ AutoApprove
    \/ Tick

Spec == Init /\ [][Next]_vars

\* The auto_approve transactions on one id that succeed.
AutoApproveOk(escrow_id) ==
    \E signer \in Parties, seller_token \in PayoutTokens(token),
       buyer_token \in RefundTokens :
        /\ auto_approve(signer, escrow_id, buyer_token, seller_token).err = "Ok"
        /\ Commit("auto_approve", escrow_id, signer,
                  auto_approve(signer, escrow_id, buyer_token, seller_token))

\* The clock keeps advancing, and anyone may submit auto_approve: a transaction
\* that stays possible is eventually submitted and processed.
LiveSpec == Spec /\ WF_vars(Tick) /\ \A id \in Ids : WF_vars(AutoApproveOk(id))

\* ------------------------------------------------------------------ claims

Terminal == {"Approved", "ResolvedBuyer", "ResolvedSeller"}
Funded == {"Accepted", "Delivered", "Disputed"}
TotalPool(e) == e.payment_amount + e.buyer_collateral + e.seller_collateral
Did(id, op) == \E i \in 1..Len(ledger[id].ops) : ledger[id].ops[i] = op
Count(id, op) == Cardinality({i \in 1..Len(ledger[id].ops) : ledger[id].ops[i] = op})
Supply(t) ==
    LET RECURSIVE S(_)
        S(A) == IF A = {} THEN 0
                ELSE LET a == CHOOSE x \in A : TRUE IN t[a].amount + S(A \ {a})
    IN  S(DOMAIN t)
\* What party p holds over all the token accounts it owns.
Balance(t, p) ==
    LET RECURSIVE S(_)
        S(A) == IF A = {} THEN 0
                ELSE LET a == CHOOSE x \in A : TRUE IN t[a].amount + S(A \ {a})
    IN  S({a \in DOMAIN t : t[a].owner = p})
Received(r, p) == Balance(r.token, p) - Balance(token, p)

\* C1: in every reachable state where a record is terminal (Approved,
\* ResolvedBuyer, ResolvedSeller) its vault holds exactly 0 and the transfers
\* that left the vault add up to payment_amount + buyer_collateral +
\* seller_collateral.
C1_TerminalVaultDrained ==
    \A id \in DOMAIN escrow :
        escrow[id].state \in Terminal =>
            /\ token[Vault(id)].amount = 0
            /\ ledger[id].paid = TotalPool(escrow[id])

\* C2: every transfer out of the vault made by approve, auto_approve or arbitrate
\* credits a token account owned by the record's stored buyer, seller or
\* arbitrator, whatever destination accounts the caller passed.
C2_PayoutsToStoredParties ==
    \A id \in DOMAIN escrow :
        \A i \in 1..Len(ledger[id].payouts) :
            token[ledger[id].payouts[i].to].owner \in
                {escrow[id].buyer, escrow[id].seller, escrow[id].arbitrator}

\* C3: the vault holds payment_amount + buyer_collateral while the record is
\* Created, and payment_amount + buyer_collateral + seller_collateral while it is
\* Accepted, Delivered or Disputed.
C3_VaultBalanceByState ==
    \A id \in DOMAIN escrow :
        LET e == escrow[id] IN
        /\ e.state = "Created" =>
              token[Vault(id)].amount = e.payment_amount + e.buyer_collateral
        /\ e.state \in Funded => token[Vault(id)].amount = TotalPool(e)

\* C4: a record's state only moves along Created -> Accepted -> Delivered ->
\* Approved, Delivered -> Disputed, Disputed -> ResolvedBuyer | ResolvedSeller,
\* and once it is terminal no step changes the record or its vault.
Edges ==
    {<<"Created", "Accepted">>, <<"Accepted", "Delivered">>,
     <<"Delivered", "Approved">>, <<"Delivered", "Disputed">>,
     <<"Disputed", "ResolvedBuyer">>, <<"Disputed", "ResolvedSeller">>}
C4_Step ==
    \A id \in DOMAIN escrow :
        /\ \/ escrow'[id].state = escrow[id].state
           \/ <<escrow[id].state, escrow'[id].state>> \in Edges
        /\ escrow[id].state \in Terminal =>
              /\ escrow'[id] = escrow[id]
              /\ token'[Vault(id)] = token[Vault(id)]
C4_Lifecycle == [][C4_Step]_vars

C6_RepeatRejected ==
    \A id \in DOMAIN escrow :
        LET e == escrow[id]
            rejected(r) == r.err = "InvalidState" /\ Unchanged(r)
        IN
        /\ Did(id, "accept_escrow") =>
              \A tk \in DOMAIN token : rejected(accept_escrow(ledger[id].acceptor, tk, id))
        /\ Did(id, "deliver") => \A h \in Hashes : rejected(deliver(e.seller, id, h))
        /\ Did(id, "approve") =>
              \A bt, st \in DOMAIN token : rejected(approve(e.buyer, id, bt, st))
        /\ Did(id, "raise_dispute") => rejected(raise_dispute(e.buyer, id))
        /\ Did(id, "arbitrate") =>
              \A rl \in Rulings, tk \in DOMAIN token :
                  rejected(arbitrate(e.arbitrator, id, rl, tk, tk, tk))
        /\ Did(id, "auto_approve") =>
              \A s \in Parties, bt, st \in DOMAIN token :
                  rejected(auto_approve(s, id, bt, st))

\* C7: every operation is all-or-nothing.  No state shows a partial effect: a
\* Created record has no seller and its own deposits are payment + buyer
\* collateral; a record is past Created only with the seller's collateral
\* deposited and the acceptor stored; funds leave a vault only in a settlement
\* that made both of its transfers and advanced the state; a failed create_escrow
\* leaves neither record nor vault; and no tokens appear or vanish.
C7_AllOrNothing ==
    /\ Supply(token) = Cardinality(Parties) * InitBal
    /\ \A id \in Ids \ DOMAIN escrow :
          /\ Vault(id) \notin DOMAIN token
          /\ ledger[id].ops = <<>> /\ ledger[id].deposited = 0
    /\ \A id \in DOMAIN escrow :
          LET e == escrow[id]
              l == ledger[id]
          IN
          /\ Vault(id) \in DOMAIN token
          /\ e.state = "Created" =>
                /\ e.seller = DefaultPubkey
                /\ l.deposited = e.payment_amount + e.buyer_collateral
          /\ e.state # "Created" =>
                /\ e.seller = l.acceptor
                /\ l.deposited = TotalPool(e)
          /\ e.state \notin Terminal => l.payouts = <<>> /\ l.paid = 0
          /\ e.state \in Terminal => Len(l.payouts) = 2

\* C8: on a Delivered record auto_approve fails with ReviewPeriodActive, changing
\* nothing, for every caller while now < delivered_at + REVIEW_PERIOD, and from
\* now = delivered_at + REVIEW_PERIOD on it passes the time gate and succeeds;
\* REVIEW_PERIOD is 259200 seconds.
C8_ReviewPeriodGate ==
    /\ REVIEW_PERIOD = 259200
    /\ \A id \in DOMAIN escrow :
          LET e == escrow[id] IN
          e.state = "Delivered" =>
              \A s \in Parties :
                  /\ now < e.delivered_at + REVIEW_PERIOD =>
                        \A bt, st \in DOMAIN token :
                            /\ auto_approve(s, id, bt, st).err = "ReviewPeriodActive"
                            /\ Unchanged(auto_approve(s, id, bt, st))
                  /\ now >= e.delivered_at + REVIEW_PERIOD =>
                        /\ \A bt, st \in DOMAIN token :
                              auto_approve(s, id, bt, st).err # "ReviewPeriodActive"
                        /\ auto_approve(s, id, UserToken(e.buyer),
                                        UserToken(e.seller)).err = "Ok"

\* C9: overflow is detected at create: no record exists whose settlement sums
\* payment + buyer collateral, payment + seller collateral or payment + buyer
\* collateral + seller collateral exceed the unsigned range.
C9_OverflowDetectedAtCreate ==
    \A id \in DOMAIN escrow :
        LET e == escrow[id] IN
        /\ checked_add(e.payment_amount, e.buyer_collateral) # -1
        /\ checked_add(e.payment_amount, e.seller_collateral) # -1
        /\ checked_add(checked_add(e.payment_amount, e.buyer_collateral),
                       e.seller_collateral) # -1

\* C10: of the accept_escrow calls on one Created record exactly one succeeds and
\* its caller is the stored seller; every later accept_escrow, by any caller with
\* any token account, fails with InvalidState, adds nothing to the vault and does
\* not overwrite the seller.
C10_OneAcceptWins ==
    \A id \in DOMAIN escrow :
        LET e == escrow[id] IN
        e.state # "Created" =>
            /\ Count(id, "accept_escrow") = 1
            /\ e.seller = ledger[id].acceptor
            /\ e.seller \in Parties
            /\ ledger[id].deposited = TotalPool(e)
            /\ \A s \in Parties, tk \in DOMAIN token :
                  /\ accept_escrow(s, tk, id).err = "InvalidState"
                  /\ Unchanged(accept_escrow(s, tk, id))

\* C11: a successful arbitrate on a Disputed record pays the arbitrator the fee
\* buyer_collateral / 100 (truncating) and pays the ruled winner (buyer for
\* BuyerWins, seller for SellerWins) payment_amount + buyer_collateral +
\* seller_collateral - fee, the same whichever side wins; the loser receives
\* nothing, and the state becomes ResolvedBuyer or ResolvedSeller accordingly.
C11_ArbitratePayout ==
    \A id \in DOMAIN escrow :
        LET e == escrow[id]
            fee == e.buyer_collateral \div 100
            winner(rl) == IF rl = "BuyerWins" THEN e.buyer ELSE e.seller
            gain(rl, p) == (IF p = winner(rl) THEN TotalPool(e) - fee ELSE 0)
                           + (IF p = e.arbitrator THEN fee ELSE 0)
        IN  e.state = "Disputed" =>
                \A rl \in Rulings, bt, st, at \in DOMAIN token :
                    LET r == arbitrate(e.arbitrator, id, rl, bt, st, at) IN
                    r.err = "Ok" =>
                        /\ \A p \in Parties : Received(r, p) = gain(rl, p)
                        /\ r.escrow[id].state =
                              (IF rl = "BuyerWins" THEN "ResolvedBuyer"
                               ELSE "ResolvedSeller")

\* C12: from the same Delivered record a successful approve and a successful
\* auto_approve give the same result: the seller receives payment_amount +
\* seller_collateral, the buyer receives buyer_collateral, the vault ends at 0 and
\* the state is Approved; they differ only in the guard (the stored buyer for
\* approve, now >= delivered_at + REVIEW_PERIOD and any caller for auto_approve).
C12_ApproveAutoApproveSameResult ==
    \A id \in DOMAIN escrow :
        LET e == escrow[id]
            gain(p) == (IF p = e.seller THEN e.payment_amount + e.seller_collateral
                        ELSE 0)
                       + (IF p = e.buyer THEN e.buyer_collateral ELSE 0)
            settled(r) ==
                /\ \A p \in Parties : Received(r, p) = gain(p)
                /\ r.token[Vault(id)].amount = 0
                /\ r.escrow[id].state = "Approved"
        IN  e.state = "Delivered" =>
                \A s \in Parties, bt, st \in DOMAIN token :
                    LET a == approve(s, id, bt, st)
                        b == auto_approve(s, id, bt, st)
                    IN  /\ a.err = "Ok" => s = e.buyer /\ settled(a)
                        /\ b.err = "Ok" =>
                              now >= e.delivered_at + REVIEW_PERIOD /\ settled(b)
                        /\ (a.err = "Ok" /\ b.err = "Ok") =>
                              a.escrow = b.escrow /\ a.token = b.token

\* C13: operations on different escrow ids are independent: a step in which no
\* operation on id b succeeded (an operation on another id, successful or failed,
\* with any accounts) leaves b's record and b's vault unchanged, so b's vault
\* always holds b's own deposits minus b's own settlement payouts.
C13_Step ==
    \A b \in Ids :
        /\ ledger'[b].ops = ledger[b].ops =>
              /\ (b \in DOMAIN escrow') = (b \in DOMAIN escrow)
              /\ b \in DOMAIN escrow =>
                    /\ escrow'[b] = escrow[b]
                    /\ token'[Vault(b)] = token[Vault(b)]
        /\ b \in DOMAIN escrow' =>
              token'[Vault(b)].amount = ledger'[b].deposited - ledger'[b].paid
C13_Independence == [][C13_Step]_vars

\* C14 (as claimed): raise_dispute by the stored buyer on a Delivered record
\* succeeds only while now < delivered_at + REVIEW_PERIOD, so raise_dispute and
\* auto_approve are never both enabled on the same record.
C14_DisputeOnlyInReviewPeriod ==
    \A id \in DOMAIN escrow :
        LET e == escrow[id] IN
        e.state = "Delivered" =>
            /\ raise_dispute(e.buyer, id).err = "Ok" =>
                  now < e.delivered_at + REVIEW_PERIOD
            /\ \A s \in Parties, bt, st \in DOMAIN token :
                  ~(/\ raise_dispute(e.buyer, id).err = "Ok"
                    /\ auto_approve(s, id, bt, st).err = "Ok")

\* C14 (amended): raise_dispute has no time gate.  On a Delivered record the
\* stored buyer's raise_dispute succeeds at every time and moves the record to
\* Disputed; while now < delivered_at + REVIEW_PERIOD auto_approve is not enabled,
\* and from delivered_at + REVIEW_PERIOD on raise_dispute and auto_approve are
\* both enabled until one of them (or approve) is taken.
C14_DisputeAnyTimeWhileDelivered ==
    \A id \in DOMAIN escrow :
        LET e == escrow[id] IN
        e.state = "Delivered" =>
            /\ raise_dispute(e.buyer, id).err = "Ok"
            /\ raise_dispute(e.buyer, id).escrow =
                  [escrow EXCEPT ![id].state = "Disputed"]
            /\ raise_dispute(e.buyer, id).token = token
            /\ now < e.delivered_at + REVIEW_PERIOD =>
                  \A s \in Parties, bt, st \in DOMAIN token :
                      auto_approve(s, id, bt, st).err = "ReviewPeriodActive"
            /\ now >= e.delivered_at + REVIEW_PERIOD =>
                  \A s \in Parties :
                      auto_approve(s, id, UserToken(e.buyer),
                                   UserToken(e.seller)).err = "Ok"

\* C15: in every reachable state a record's seller is the default (unset)
\* identity if and only if its state is Created; in every later state the seller
\* is the caller whose accept_escrow succeeded, and no later operation changes it.
C15_SellerInv ==
    \A id \in DOMAIN escrow :
        /\ (escrow[id].seller = DefaultPubkey) <=> (escrow[id].state = "Created")
        /\ escrow[id].state # "Created" =>
              /\ escrow[id].seller = ledger[id].acceptor
              /\ escrow[id].seller \in Parties
C15_SellerStep ==
    \A id \in DOMAIN escrow :
        escrow[id].state # "Created" => escrow'[id].seller = escrow[id].seller
C15_SellerSetByAccept == []C15_SellerInv /\ [][C15_SellerStep]_vars

\* C16: delivered_at is 0 in states Created and Accepted, is assigned exactly
\* once, by the successful deliver, to the time of that call, is never changed by
\* a later operation, and from Delivered onward delivered_at >= created_at.
C16_DeliveredAtInv ==
    \A id \in DOMAIN escrow :
        LET e == escrow[id] IN
        /\ e.state \in {"Created", "Accepted"} =>
              e.delivered_at = 0 /\ ~Did(id, "deliver")
        /\ e.state \notin {"Created", "Accepted"} =>
              /\ Count(id, "deliver") = 1
              /\ e.delivered_at >= e.created_at
              /\ e.delivered_at <= now
C16_DeliveredAtStep ==
    \A id \in DOMAIN escrow :
        IF Count(id, "deliver") = 0 /\ Did(id, "deliver")'
        THEN escrow'[id].delivered_at = now
        ELSE escrow'[id].delivered_at = escrow[id].delivered_at
C16_DeliveredAtSetOnce == []C16_DeliveredAtInv /\ [][C16_DeliveredAtStep]_vars

\* C17: only a successful approve, auto_approve or arbitrate decreases the vault
\* balance of an escrow: create_escrow and accept_escrow only increase it, deliver
\* and raise_dispute leave the vault and every party's balance unchanged, and each
\* successful approve, auto_approve or arbitrate takes the vault from the full
\* pool to exactly 0 in one step.
Settlements == {"approve", "auto_approve", "arbitrate"}
Stepped(id, ops) ==
    /\ ledger'[id].ops # ledger[id].ops
    /\ ledger'[id].ops[Len(ledger'[id].ops)] \in ops
C17_Step ==
    \A id \in DOMAIN escrow' :
        /\ (id \in DOMAIN escrow /\ token'[Vault(id)].amount < token[Vault(id)].amount)
              => Stepped(id, Settlements)
        /\ Stepped(id, {"create_escrow"}) => token'[Vault(id)].amount >= 0
        /\ Stepped(id, {"accept_escrow"}) =>
              token'[Vault(id)].amount >= token[Vault(id)].amount
        /\ Stepped(id, {"deliver", "raise_dispute"}) => token' = token
        /\ Stepped(id, Settlements) =>
              /\ token[Vault(id)].amount = TotalPool(escrow[id])
              /\ token'[Vault(id)].amount = 0
C17_OnlySettlementDrainsVault == [][C17_Step]_vars

\* C18: after a successful create_escrow the fields escrow_id, buyer, arbitrator,
\* payment_amount, buyer_collateral, seller_collateral and created_at of the record
\* are never changed by a later operation; a repeated create_escrow with the same
\* id fails without touching the existing record or vault; and payment_amount > 0
\* holds in every reachable state.
CreationFields(e) ==
    <<e.escrow_id, e.buyer, e.arbitrator, e.payment_amount, e.buyer_collateral,
      e.seller_collateral, e.created_at>>
C18_CreatedInv ==
    \A id \in DOMAIN escrow :
        /\ escrow[id].payment_amount > 0
        /\ escrow[id].escrow_id = id
        /\ \A buyer \in Parties, arbitrator \in Arbitrators,
              payment_amount \in PaymentAmounts, buyer_collateral \in BuyerCollaterals,
              seller_collateral \in SellerCollaterals, deadline_ts \in {now, now + 1} :
                LET r == create_escrow(buyer, UserToken(buyer), arbitrator, "usdc", id,
                                       MaxDescriptionLen, payment_amount,
                                       buyer_collateral, seller_collateral, deadline_ts)
                IN  r.err = "AccountInUse" /\ Unchanged(r)
C18_CreatedStep ==
    \A id \in DOMAIN escrow :
        /\ id \in DOMAIN escrow'
        /\ CreationFields(escrow'[id]) = CreationFields(escrow[id])
C18_CreationFieldsFixed == []C18_CreatedInv /\ [][C18_CreatedStep]_vars

\* C19: a delivered escrow cannot be held hostage by an inactive buyer: a record
\* in state Delivered on which the buyer never calls approve or raise_dispute
\* eventually reaches Approved with the vault at 0, under weak fairness on time
\* advance and on auto_approve.  (The clock of the model stops at LastTime, so the
\* records considered are those whose review period ends by then.)
LastTime == MaxPeriods * REVIEW_PERIOD + MaxOffset
AwaitingBuyer(id) ==
    /\ id \in DOMAIN escrow
    /\ escrow[id].state = "Delivered"
    /\ escrow[id].delivered_at + REVIEW_PERIOD <= LastTime
BuyerActed(id) == Did(id, "approve") \/ Did(id, "raise_dispute")
ApprovedAndDrained(id) ==
    /\ id \in DOMAIN escrow
    /\ escrow[id].state = "Approved"
    /\ token[Vault(id)].amount = 0
C19_NotHeldHostage ==
    \A id \in Ids : AwaitingBuyer(id) ~> (BuyerActed(id) \/ ApprovedAndDrained(id))

\* C20: the deadline is validated only by create_escrow, which fails with
\* InvalidDeadline unless deadline_ts > now, and gates nothing afterwards:
\* whether or not now > deadline_ts, accept_escrow, deliver, approve,
\* raise_dispute, arbitrate and auto_approve are enabled exactly by the record's
\* state, the caller, the funds and the review period; deadline_ts is never
\* modified.  (create_escrow is called with a positive payment and a description
\* within the limit, the requirements it checks before the deadline.)
C20_DeadlineInv ==
    /\ \A id \in Ids \ DOMAIN escrow :
          \A buyer \in Buyers, seller_collateral \in SellerCollaterals :
              LET late == create_escrow(buyer, UserToken(buyer), "carol", "usdc", id,
                                        MaxDescriptionLen, 1, 150, seller_collateral,
                                        now)
                  ahead == create_escrow(buyer, UserToken(buyer), "carol", "usdc", id,
                                         MaxDescriptionLen, 1, 150, seller_collateral,
                                         now + 1)
              IN  /\ late.err = "InvalidDeadline" /\ Unchanged(late)
                  /\ ahead.err # "InvalidDeadline"
                  /\ ahead.err = "Ok" <=> token[UserToken(buyer)].amount >= 151
    /\ \A id \in DOMAIN escrow :
          LET e == escrow[id]
              own(p) == UserToken(p)
          IN
          /\ e.deadline_ts > e.created_at
          /\ \A s \in Parties :
                accept_escrow(s, own(s), id).err = "Ok" <=>
                    /\ e.state = "Created"
                    /\ token[own(s)].amount >= e.seller_collateral
          /\ \A h \in Hashes : deliver(e.seller, id, h).err = "Ok" <=> e.state = "Accepted"
          /\ raise_dispute(e.buyer, id).err = "Ok" <=> e.state = "Delivered"
          /\ approve(e.buyer, id, own(e.buyer), own(e.seller)).err = "Ok" <=>
                e.state = "Delivered"
          /\ \A rl \in Rulings :
                arbitrate(e.arbitrator, id, rl, own(e.buyer), own(e.seller),
                          own(e.arbitrator)).err = "Ok" <=> e.state = "Disputed"
          /\ \A s \in Parties :
                auto_approve(s, id, own(e.buyer), own(e.seller)).err = "Ok" <=>
                    /\ e.state = "Delivered"
                    /\ now >= e.delivered_at + REVIEW_PERIOD
C20_DeadlineStep ==
    \A id \in DOMAIN escrow : escrow'[id].deadline_ts = escrow[id].deadline_ts
C20_DeadlineGatesNothing == []C20_DeadlineInv /\ [][C20_DeadlineStep]_vars

\* --------------------------------------------------------------- witnesses

C6_Witness ==
    \E id \in DOMAIN escrow :
        /\ Did(id, "approve")
        /\ approve(escrow[id].buyer, id, UserToken(escrow[id].buyer),
                   UserToken(escrow[id].seller)).err = "InvalidState"

\* An accept_escrow whose collateral transfer fails after the handler assigned
\* seller and state, and an approve whose second transfer fails after the first
\* one was made.
C7_Witness ==
    /\ \E id \in DOMAIN escrow, s \in Sellers :
          /\ accept_escrow(s, UserToken(s), id).err = "TokenError"
          /\ accept_escrow(s, UserToken(s), id).escrow[id].state = "Accepted"
          /\ escrow[id].state = "Created"
    /\ \E id \in DOMAIN escrow :
          LET r == approve(escrow[id].buyer, id, ForeignToken,
                           UserToken(escrow[id].seller))
          IN  r.err = "TokenError" /\ r.token # token /\ Len(r.xfers) = 1

\* auto_approve one second before the review period ends.
C8_Witness ==
    \E id \in DOMAIN escrow :
        /\ escrow[id].state = "Delivered"
        /\ now = escrow[id].delivered_at + REVIEW_PERIOD - 1
        /\ auto_approve("bob", id, AnyToken, AnyToken).err = "ReviewPeriodActive"

\* A second caller's accept_escrow on an already accepted record.
C10_Witness ==
    \E id \in DOMAIN escrow :
        /\ escrow[id].state = "Accepted"
        /\ \E s \in Sellers \ {escrow[id].seller} :
              accept_escrow(s, UserToken(s), id).err = "InvalidState"

\* The review period of a Delivered record is over and the buyer's raise_dispute
\* still succeeds, as auto_approve does.
C14_Witness ==
    \E id \in DOMAIN escrow :
        /\ escrow[id].state = "Delivered"
        /\ now >= escrow[id].delivered_at + REVIEW_PERIOD
        /\ raise_dispute(escrow[id].buyer, id).err = "Ok"
        /\ raise_dispute(escrow[id].buyer, id).escrow[id].state = "Disputed"
        /\ auto_approve("bob", id, UserToken(escrow[id].buyer),
                        UserToken(escrow[id].seller)).err = "Ok"

\* One record still Created with no seller next to a settled record whose seller
\* is still the caller that accepted it.
C15_Witness ==
    /\ \E id \in DOMAIN escrow :
          escrow[id].state = "Created" /\ escrow[id].seller = DefaultPubkey
    /\ \E id \in DOMAIN escrow :
          /\ escrow[id].state \in Terminal
          /\ escrow[id].seller = ledger[id].acceptor
          /\ escrow[id].seller \in Sellers

\* A record created at time 0, delivered later, and settled after that: its
\* delivered_at is still the time of the deliver call.
C16_Witness ==
    \E id \in DOMAIN escrow :
        /\ escrow[id].state \in Terminal
        /\ escrow[id].delivered_at > escrow[id].created_at
        /\ escrow[id].delivered_at < now

\* A record that went through accept, deliver and a settlement, on whose id
\* create_escrow is called again with valid arguments.
C18_Witness ==
    \E id \in DOMAIN escrow :
        /\ escrow[id].state \in Terminal
        /\ create_escrow("alice", UserToken("alice"), "carol", "usdc", id,
                         MaxDescriptionLen, 1, 150, 2, now + 1).err = "AccountInUse"

\* A record delivered after its deadline had passed, with the next operations
\* still enabled, next to a record not yet accepted whose deadline has passed.
C20_Witness ==
    /\ \E id \in DOMAIN escrow :
          /\ escrow[id].state = "Delivered"
          /\ escrow[id].delivered_at > escrow[id].deadline_ts
          /\ raise_dispute(escrow[id].buyer, id).err = "Ok"
    /\ \E id \in DOMAIN escrow, s \in Sellers :
          /\ escrow[id].state = "Created"
          /\ now > escrow[id].deadline_ts
          /\ accept_escrow(s, UserToken(s), id).err = "Ok"

====
